---------------------------- MODULE Spec2Model ----------------------------
(***************************************************************************)
(* boepie: the WSClean parameter model (WSCleanInput), its serialisation   *)
(* to stimela command tokens (to_cmd, cli_sanitise) and the subprocess     *)
(* runner (stimela_run, run_wsclean).                                      *)
(*                                                                         *)
(* Python values are tagged records: [t |-> "int", v |-> 5],               *)
(* [t |-> "list", v |-> <<...>>], [t |-> "none"], ...  A float             *)
(* is held in tenths (v = 5 is 0.5), which is exact for the one-decimal    *)
(* floats the model draws.  Python text (a str value, a field name, a      *)
(* token, the command line) is a sequence of one-character strings, so     *)
(* that cli_sanitise and the f-string of to_cmd act on its characters;     *)
(* Join turns it into a TLA+ string for comparison with a literal.  The    *)
(* child's captured streams, which the code only passes on, are TLA+       *)
(* strings.                                                                *)
(***************************************************************************)
EXTENDS Integers, Sequences, FiniteSets, TLC

VARIABLES
  pc,       \* where the request is: "request", "invalid", "constructed",
            \* "running", "spawn_error", "returned"
  raw,      \* the caller's keyword arguments: supplied key -> raw value
  obj,      \* the WSCleanInput instance: field name -> value, or NoObject
  writes,   \* field writes the caller has made (request edits + assignments)
  tokens,   \* what to_cmd returned to run_wsclean
  spawned,  \* child processes started by stimela_run
  child,    \* what the child process left when it exited, or NoChild
  error,    \* the exception that ended the request, or "none"
  result    \* the RunResult returned by stimela_run, or NoResult

vars == <<pc, raw, obj, writes, tokens, spawned, child, error, result>>

(***************************************************************************)
(* Bounds.                                                                 *)
(***************************************************************************)
\* The caller writes at most this many fields in total: fields of the
\* request that differ from BaseRequest, plus attribute assignments made on
\* the constructed object.
MaxWrites == 1

(***************************************************************************)
(* Python values.                                                          *)
(***************************************************************************)
Missing == [t |-> "missing"]   \* the key is not in the keyword arguments
None == [t |-> "none"]
Dict == [t |-> "dict"]         \* a mapping: no field type accepts it
IntV(n) == [t |-> "int", v |-> n]
FloatV(tenths) == [t |-> "float", v |-> tenths]
BoolV(b) == [t |-> "bool", v |-> b]
StrV(s) == [t |-> "str", v |-> s]
ListV(s) == [t |-> "list", v |-> s]

RECURSIVE Join(_)
\* The TLA+ string spelled by a sequence of characters
Join(chars) == IF chars = <<>> THEN "" ELSE Head(chars) \o Join(Tail(chars))

Digit(d) ==
  CASE d = 0 -> "0" [] d = 1 -> "1" [] d = 2 -> "2" [] d = 3 -> "3"
    [] d = 4 -> "4" [] d = 5 -> "5" [] d = 6 -> "6" [] d = 7 -> "7"
    [] d = 8 -> "8" [] d = 9 -> "9"

RECURSIVE NatStr(_)
NatStr(n) == IF n < 10 THEN <<Digit(n)>> ELSE NatStr(n \div 10) \o <<Digit(n % 10)>>

\* str(int)
IntStr(n) == IF n < 0 THEN <<"-">> \o NatStr(-n) ELSE NatStr(n)

\* repr(float) of a float held in tenths: 5 is 0.5, 10 is 1.0, -5 is -0.5
FloatStr(tenths) ==
  LET a == IF tenths < 0 THEN -tenths ELSE tenths
  IN  (IF tenths < 0 THEN <<"-">> ELSE <<>>)
        \o NatStr(a \div 10) \o <<".">> \o <<Digit(a % 10)>>

RECURSIVE Repr(_), ReprItems(_)
\* repr(value): what a list shows for each of its elements
Repr(val) ==
  CASE val.t = "str" -> <<"'">> \o val.v \o <<"'">>
    [] val.t = "int" -> IntStr(val.v)
    [] val.t = "float" -> FloatStr(val.v)
    [] val.t = "bool" -> IF val.v THEN <<"T", "r", "u", "e">> ELSE <<"F", "a", "l", "s", "e">>
    [] val.t = "none" -> <<"N", "o", "n", "e">>
    [] val.t = "dict" -> <<"{", "}">>
    [] val.t = "list" -> <<"[">> \o ReprItems(val.v) \o <<"]">>

\* ', '.join(repr(x) for x in items)
ReprItems(items) ==
  IF items = <<>> THEN <<>>
  ELSE IF Len(items) = 1 THEN Repr(items[1])
  ELSE Repr(Head(items)) \o <<",", " ">> \o ReprItems(Tail(items))

\* str(value), the rendering an f-string gives: a str renders as itself, every
\* other value as its repr
PyStr(val) == IF val.t = "str" THEN val.v ELSE Repr(val)

(***************************************************************************)
(* The declared fields of WSCleanInput, in declaration order.  type is the *)
(* set of members of the annotation's union.                               *)
(***************************************************************************)
FieldTable ==
  <<
    [name |-> <<"m", "s">>,
     alias |-> <<>>, type |-> {"seq_str"}, default |-> Missing],
    [name |-> <<"p", "r", "e", "f", "i", "x">>,
     alias |-> <<>>, type |-> {"str"}, default |-> Missing],
    [name |-> <<"s", "i", "z", "e">>,
     alias |-> <<>>, type |-> {"list_int"}, default |-> Missing],
    [name |-> <<"s", "c", "a", "l", "e">>,
     alias |-> <<>>, type |-> {"str", "float"}, default |-> Missing],
    [name |-> <<"c", "o", "l", "u", "m", "n">>,
     alias |-> <<>>, type |-> {"str", "none"}, default |-> StrV(<<"D", "A", "T", "A">>)],
    [name |-> <<"n", "c", "h", "a", "n">>,
     alias |-> <<>>, type |-> {"int", "none"}, default |-> None],
    [name |-> <<"d", "e", "c", "o", "n", "v", "o", "l", "u", "t", "i", "o", "n", "_", "c", "h", "a", "n", "n", "e", "l", "s">>,
     alias |-> <<>>, type |-> {"int", "none"}, default |-> None],
    [name |-> <<"c", "h", "a", "n", "n", "e", "l", "_", "r", "a", "n", "g", "e">>,
     alias |-> <<>>, type |-> {"seq_int", "none"}, default |-> None],
    [name |-> <<"p", "o", "l">>,
     alias |-> <<>>, type |-> {"str", "seq_str", "none"}, default |-> None],
    [name |-> <<"j", "o", "i", "n", "_", "p", "o", "l", "a", "r", "i", "z", "a", "t", "i", "o", "n", "s">>,
     alias |-> <<>>, type |-> {"bool", "none"}, default |-> None],
    [name |-> <<"l", "i", "n", "k", "_", "p", "o", "l", "a", "r", "i", "z", "a", "t", "i", "o", "n", "s">>,
     alias |-> <<>>, type |-> {"str", "seq_str", "none"}, default |-> None],
    [name |-> <<"i", "n", "t", "e", "r", "v", "a", "l", "s", "_", "o", "u", "t">>,
     alias |-> <<>>, type |-> {"int", "none"}, default |-> None],
    [name |-> <<"t", "h", "r", "e", "a", "d", "s">>,
     alias |-> <<>>, type |-> {"int", "none"}, default |-> None],
    [name |-> <<"m", "a", "k", "e", "_", "p", "s", "f", "_", "o", "n", "l", "y">>,
     alias |-> <<>>, type |-> {"bool", "none"}, default |-> None],
    [name |-> <<"w", "e", "i", "g", "h", "t">>,
     alias |-> <<>>, type |-> {"str", "list_str_float", "none"}, default |-> None],
    [name |-> <<"m", "u", "l", "t", "i", "s", "c", "a", "l", "e">>,
     alias |-> <<>>, type |-> {"bool", "none"}, default |-> None],
    [name |-> <<"m", "u", "l", "t", "i", "s", "c", "a", "l", "e", "_", "s", "c", "a", "l", "e", "s">>,
     alias |-> <<>>, type |-> {"seq_int", "none"}, default |-> None],
    [name |-> <<"m", "u", "l", "t", "i", "s", "c", "a", "l", "e", "_", "s", "c", "a", "l", "e", "_", "b", "i", "a", "s">>,
     alias |-> <<>>, type |-> {"float", "none"}, default |-> None],
    [name |-> <<"t", "a", "p", "e", "r", "_", "g", "a", "u", "s", "s", "i", "a", "n">>,
     alias |-> <<>>, type |-> {"str", "none"}, default |-> None],
    [name |-> <<"n", "i", "t", "e", "r">>,
     alias |-> <<>>, type |-> {"int", "none"}, default |-> None],
    [name |-> <<"n", "m", "i", "t", "e", "r">>,
     alias |-> <<>>, type |-> {"int", "none"}, default |-> None],
    [name |-> <<"f", "i", "t", "s", "_", "m", "a", "s", "k">>,
     alias |-> <<>>, type |-> {"str", "none"}, default |-> None],
    [name |-> <<"t", "h", "r", "e", "s", "h", "o", "l", "d">>,
     alias |-> <<>>, type |-> {"float", "none"}, default |-> None],
    [name |-> <<"a", "u", "t", "o", "_", "t", "h", "r", "e", "s", "h", "o", "l", "d">>,
     alias |-> <<>>, type |-> {"float", "none"}, default |-> None],
    [name |-> <<"a", "u", "t", "o", "_", "m", "a", "s", "k">>,
     alias |-> <<>>, type |-> {"float", "none"}, default |-> None],
    [name |-> <<"l", "o", "c", "a", "l", "_", "r", "m", "s">>,
     alias |-> <<>>, type |-> {"bool", "none"}, default |-> None],
    [name |-> <<"l", "o", "c", "a", "l", "_", "r", "m", "s", "_", "w", "i", "n", "d", "o", "w">>,
     alias |-> <<>>, type |-> {"int", "none"}, default |-> None],
    [name |-> <<"l", "o", "c", "a", "l", "_", "r", "m", "s", "_", "m", "e", "t", "h", "o", "d">>,
     alias |-> <<>>, type |-> {"literal", "none"}, default |-> None],
    [name |-> <<"g", "a", "i", "n">>,
     alias |-> <<>>, type |-> {"float", "none"}, default |-> None],
    [name |-> <<"m", "g", "a", "i", "n">>,
     alias |-> <<>>, type |-> {"float", "none"}, default |-> None],
    [name |-> <<"b", "a", "s", "e", "l", "i", "n", "e", "_", "a", "v", "e", "r", "a", "g", "i", "n", "g">>,
     alias |-> <<>>, type |-> {"float", "none"}, default |-> None],
    [name |-> <<"j", "o", "i", "n", "_", "c", "h", "a", "n", "n", "e", "l", "s">>,
     alias |-> <<>>, type |-> {"bool", "none"}, default |-> None],
    [name |-> <<"f", "i", "t", "_", "s", "p", "e", "c", "t", "r", "a", "l", "_", "p", "o", "l">>,
     alias |-> <<>>, type |-> {"int", "none"}, default |-> None],
    [name |-> <<"f", "i", "t", "_", "b", "e", "a", "m">>,
     alias |-> <<>>, type |-> {"bool", "none"}, default |-> None],
    [name |-> <<"e", "l", "l", "i", "p", "t", "i", "c", "a", "l", "_", "b", "e", "a", "m">>,
     alias |-> <<>>, type |-> {"bool", "none"}, default |-> None],
    [name |-> <<"p", "a", "d", "d", "i", "n", "g">>,
     alias |-> <<>>, type |-> {"float", "none"}, default |-> None],
    [name |-> <<"n", "w", "l", "a", "y", "e", "r", "s">>,
     alias |-> <<>>, type |-> {"int", "none"}, default |-> None],
    [name |-> <<"n", "w", "l", "a", "y", "e", "r", "s", "_", "f", "a", "c", "t", "o", "r">>,
     alias |-> <<>>, type |-> {"float", "none"}, default |-> None],
    [name |-> <<"s", "a", "v", "e", "_", "s", "o", "u", "r", "c", "e", "_", "l", "i", "s", "t">>,
     alias |-> <<>>, type |-> {"bool", "none"}, default |-> None],
    [name |-> <<"s", "t", "o", "r", "e", "_", "i", "m", "a", "g", "i", "n", "g", "_", "w", "e", "i", "g", "h", "t", "s">>,
     alias |-> <<>>, type |-> {"bool", "none"}, default |-> None],
    [name |-> <<"p", "a", "r", "a", "l", "l", "e", "l", "_", "d", "e", "c", "o", "n", "v", "o", "l", "u", "t", "i", "o", "n">>,
     alias |-> <<>>, type |-> {"int", "none"}, default |-> None],
    [name |-> <<"p", "a", "r", "a", "l", "l", "e", "l", "_", "g", "r", "i", "d", "d", "i", "n", "g">>,
     alias |-> <<>>, type |-> {"int", "none"}, default |-> None],
    [name |-> <<"p", "a", "r", "a", "l", "l", "e", "l", "_", "r", "e", "o", "r", "d", "e", "r", "i", "n", "g">>,
     alias |-> <<>>, type |-> {"int", "none"}, default |-> None],
    [name |-> <<"n", "o", "_", "r", "e", "o", "r", "d", "e", "r">>,
     alias |-> <<>>, type |-> {"bool", "none"}, default |-> None],
    [name |-> <<"r", "e", "o", "r", "d", "e", "r">>,
     alias |-> <<>>, type |-> {"bool", "none"}, default |-> None],
    [name |-> <<"p", "r", "e", "d", "i", "c", "t">>,
     alias |-> <<>>, type |-> {"bool", "none"}, default |-> None],
    [name |-> <<"n", "o", "_", "u", "p", "d", "a", "t", "e", "_", "m", "o", "d", "e", "l", "_", "r", "e", "q", "u", "i", "r", "e", "d">>,
     alias |-> <<>>, type |-> {"bool", "none"}, default |-> None],
    [name |-> <<"c", "o", "n", "t", "i", "n", "u", "e", "_">>,
     alias |-> <<"c", "o", "n", "t", "i", "n", "u", "e">>, type |-> {"bool", "none"}, default |-> None],
    [name |-> <<"s", "u", "b", "t", "r", "a", "c", "t", "_", "m", "o", "d", "e", "l">>,
     alias |-> <<>>, type |-> {"bool", "none"}, default |-> None],
    [name |-> <<"u", "s", "e", "_", "w", "g", "r", "i", "d", "d", "e", "r">>,
     alias |-> <<>>, type |-> {"bool", "none"}, default |-> None],
    [name |-> <<"l", "o", "g", "_", "t", "i", "m", "e">>,
     alias |-> <<>>, type |-> {"bool", "none"}, default |-> None],
    [name |-> <<"i", "n", "t", "e", "r", "v", "a", "l">>,
     alias |-> <<>>, type |-> {"seq_int", "none"}, default |-> None],
    [name |-> <<"n", "o", "_", "d", "i", "r", "t", "y">>,
     alias |-> <<>>, type |-> {"bool", "none"}, default |-> None],
    [name |-> <<"m", "a", "k", "e", "_", "p", "s", "f">>,
     alias |-> <<>>, type |-> {"bool", "none"}, default |-> None],
    [name |-> <<"s", "i", "m", "u", "l", "a", "t", "e", "_", "n", "o", "i", "s", "e">>,
     alias |-> <<>>, type |-> {"float", "str", "none"}, default |-> None],
    [name |-> <<"t", "a", "p", "e", "r", "_", "i", "n", "n", "e", "r", "_", "t", "u", "k", "e", "y">>,
     alias |-> <<>>, type |-> {"float", "none"}, default |-> None],
    [name |-> <<"m", "i", "n", "u", "v", "_", "l">>,
     alias |-> <<>>, type |-> {"float", "none"}, default |-> None],
    [name |-> <<"m", "a", "x", "u", "v", "_", "l">>,
     alias |-> <<>>, type |-> {"float", "none"}, default |-> None],
    [name |-> <<"m", "i", "n", "u", "v", "w", "_", "m">>,
     alias |-> <<>>, type |-> {"float", "none"}, default |-> None],
    [name |-> <<"m", "a", "x", "u", "v", "w", "_", "m">>,
     alias |-> <<>>, type |-> {"float", "none"}, default |-> None]
  >>

NumFields == Len(FieldTable)

\* The attribute name of each field, and the set of them
FieldName == [i \in 1..NumFields |-> Join(FieldTable[i].name)]
FieldNames == {FieldName[i] : i \in 1..NumFields}
FieldIndex == [n \in FieldNames |-> CHOOSE i \in 1..NumFields : FieldName[i] = n]

\* Field(alias="continue"): the key the constructor reads and that
\* model_dump(by_alias=True) writes is the alias where one is declared
KeyChars(i) ==
  IF FieldTable[i].alias # <<>> THEN FieldTable[i].alias ELSE FieldTable[i].name
InputKey == [i \in 1..NumFields |-> Join(KeyChars(i))]
InputKeys == {InputKey[i] : i \in 1..NumFields}

\* Field(min_length=1, max_length=2) of size
SizeMinLength == 1
SizeMaxLength == 2

\* Literal["rms", "rms-with-min"] of local_rms_method
LocalRmsMethods == {<<"r", "m", "s">>, <<"r", "m", "s", "-", "w", "i", "t", "h", "-", "m", "i", "n">>}

(***************************************************************************)
(* Type validation of one raw value against one member of a field's        *)
(* annotation (pydantic, lax mode, Python input).  The raw values drawn    *)
(* below are ints, one-decimal floats, bools, strings that are not         *)
(* numerals, lists of these, None and mappings.                            *)
(***************************************************************************)
\* int: an int, or a float with no fractional part
IsIntLike(x) == x.t = "int" \/ (x.t = "float" /\ x.v % 10 = 0)
ToInt(x) == IF x.t = "float" THEN IntV(x.v \div 10) ELSE x

\* float: a float, or an int
IsFloatLike(x) == x.t \in {"float", "int"}
ToFloat(x) == IF x.t = "int" THEN FloatV(10 * x.v) ELSE x

Accepts(member, x) ==
  CASE member = "none" -> x.t = "none"
    [] member = "str" -> x.t = "str"
    [] member = "int" -> IsIntLike(x)
    [] member = "float" -> IsFloatLike(x)
    [] member = "bool" -> x.t = "bool"
    [] member = "literal" -> x.t = "str" /\ x.v \in LocalRmsMethods
    [] member = "seq_str" ->
         x.t = "list" /\ \A k \in 1..Len(x.v) : x.v[k].t = "str"
    [] member \in {"seq_int", "list_int"} ->
         x.t = "list" /\ \A k \in 1..Len(x.v) : IsIntLike(x.v[k])
    [] member = "list_str_float" ->
         x.t = "list" /\ \A k \in 1..Len(x.v) : x.v[k].t = "str" \/ IsFloatLike(x.v[k])

Coerce(member, x) ==
  CASE member = "int" -> ToInt(x)
    [] member = "float" -> ToFloat(x)
    [] member \in {"seq_int", "list_int"} ->
         ListV([k \in 1..Len(x.v) |-> ToInt(x.v[k])])
    [] member = "list_str_float" ->
         ListV([k \in 1..Len(x.v) |-> IF x.v[k].t = "str" THEN x.v[k] ELSE ToFloat(x.v[k])])
    [] OTHER -> x

Ok(val) == [ok |-> TRUE, v |-> val]
Fail == [ok |-> FALSE, v |-> Missing]

\* @field_validator("size")
validate_size(val) ==
  IF val.t = "list"
  THEN IF Len(val.v) # 2 THEN Fail
       ELSE IF ~ \A k \in 1..Len(val.v) : val.v[k].t = "int" THEN Fail
       ELSE Ok(val)
  ELSE Ok(val)

\* @field_validator("weight")
validate_weight(val) ==
  IF val.t = "list"
  THEN IF Len(val.v) # 2 THEN Fail
       ELSE IF val.v[1].t # "str" THEN Fail
       ELSE IF val.v[2].t \notin {"int", "float"} THEN Fail
       ELSE Ok(val)
  ELSE IF val.t = "str"
  THEN IF val.v \notin {<<"n", "a", "t", "u", "r", "a", "l">>, <<"u", "n", "i", "f", "o", "r", "m">>, <<"b", "r", "i", "g", "g", "s">>} THEN Fail ELSE Ok(val)
  ELSE Ok(val)

\* kwargs.get(k, <absent>): the keyword arguments hold only the supplied keys
Arg(kwargs, k) == IF k \in DOMAIN kwargs THEN kwargs[k] ELSE Missing

\* Variant of ValidateField: the four required fields declared with a None
\* default, like the optional ones
ValidateField_RequiredOptional(i, x) ==
  LET fld == FieldTable[i]
      fits == {member \in fld.type : Accepts(member, x)}
  IN  IF x \in {Missing, None}
      THEN Ok(IF fld.default = Missing THEN None ELSE fld.default)
      ELSE IF fits = {} THEN Fail
      ELSE LET val == Coerce(CHOOSE member \in fits : TRUE, x)
           IN  IF "list_int" \in fld.type
                  /\ (Len(val.v) < SizeMinLength \/ Len(val.v) > SizeMaxLength)
               THEN Fail
               ELSE IF FieldName[i] = "size" THEN validate_size(val)
               ELSE IF FieldName[i] = "weight" THEN validate_weight(val)
               ELSE Ok(val)

\* One field of WSCleanInput(**kwargs): the default when the key is absent (a
\* required field has none), else the annotation's type, the Field length
\* constraints, then the field's validator.
ValidateField(i, x) ==
  LET fld == FieldTable[i]
      fits == {member \in fld.type : Accepts(member, x)}
  IN  IF x = Missing
      THEN IF fld.default = Missing THEN Fail ELSE Ok(fld.default)
      ELSE IF fits = {} THEN Fail
      ELSE LET val == Coerce(CHOOSE member \in fits : TRUE, x)
           IN  IF "list_int" \in fld.type
                  /\ (Len(val.v) < SizeMinLength \/ Len(val.v) > SizeMaxLength)
               THEN Fail
               ELSE IF FieldName[i] = "size" THEN validate_size(val)
               ELSE IF FieldName[i] = "weight" THEN validate_weight(val)
               ELSE Ok(val)

\* WSCleanInput(**kwargs) raises ValidationError unless every field validates
Validates(kwargs) ==
  \A i \in 1..NumFields : ValidateField(i, Arg(kwargs, InputKey[i])).ok

\* The instance WSCleanInput(**kwargs) constructs
Construct(kwargs) ==
  [n \in FieldNames |->
     ValidateField(FieldIndex[n], Arg(kwargs, InputKey[FieldIndex[n]])).v]

(***************************************************************************)
(* Serialisation.                                                          *)
(***************************************************************************)
\* Variant of cli_sanitise: value.replace("_", "-", 1), only the first underscore
cli_sanitise_first(value) ==
  LET at == {k \in 1..Len(value) : value[k] = "_"}
  IN  IF at = {} THEN value
      ELSE [value EXCEPT ![CHOOSE k \in at : \A j \in at : k <= j] = "-"]

\* utilities.cli_sanitise: value.replace("_", "-")
cli_sanitise(value) ==
  [k \in 1..Len(value) |-> IF value[k] = "_" THEN "-" ELSE value[k]]

\* Variant of IsSet: no test at all, every dumped value gets a token
IsSet_Always(arg_value) == TRUE

\* Variant of IsSet: "if arg_value:", the truthiness test
IsSet_Truthy(arg_value) ==
  /\ arg_value # None
  /\ arg_value.t \in {"int", "float"} => arg_value.v # 0
  /\ arg_value.t = "bool" => arg_value.v
  /\ arg_value.t \in {"str", "list"} => arg_value.v # <<>>

\* to_cmd emits a token for every dumped value that is not None
IsSet(arg_value) == arg_value # None

RECURSIVE DumpTokens(_, _)
\* The loop of to_cmd over model_dump(by_alias=True), from field i on:
\* f"{cli_sanitise(arg_name)}={arg_value}" for each value that is set
DumpTokens(o, i) ==
  IF i > NumFields THEN <<>>
  ELSE LET arg_value == o[FieldName[i]]
           rest == DumpTokens(o, i + 1)
       IN  IF IsSet(arg_value)
           THEN <<cli_sanitise(KeyChars(i)) \o <<"=">> \o PyStr(arg_value)>> \o rest
           ELSE rest

\* WSCleanInput.to_cmd
to_cmd(o) == <<<<"c", "u", "l", "t", "c", "a", "r", "g", "o", ":", ":", "w", "s", "c", "l", "e", "a", "n">>>> \o DumpTokens(o, 1)

RECURSIVE JoinSpace(_)
\* " ".join(words)
JoinSpace(words) ==
  IF words = <<>> THEN <<>>
  ELSE IF Len(words) = 1 THEN words[1]
  ELSE Head(words) \o <<" ">> \o JoinSpace(Tail(words))

\* final_commands of stimela_run
FinalCommands(commands) == <<<<"s", "t", "i", "m", "e", "l", "a">>, <<"r", "u", "n">>>> \o commands

\* Variant of RunResultOf: return_code=0 whatever the child's exit code
RunResultOf_ZeroCode(commands, out) ==
  [command |-> JoinSpace(FinalCommands(commands)),
   stdout |-> out.stdout, stderr |-> out.stderr, return_code |-> 0]

\* The RunResult stimela_run builds once communicate() has returned
RunResultOf(commands, out) ==
  [command |-> JoinSpace(FinalCommands(commands)),
   stdout |-> out.stdout, stderr |-> out.stderr, return_code |-> out.returncode]

(***************************************************************************)
(* The requests the model draws.                                           *)
(***************************************************************************)
\* One raw value a caller may pass for a field whose annotation has this
\* member: the falsy value of the type where it has one
RawSamples(member) ==
  CASE member = "none" -> {}
    [] member = "str" -> {StrV(<<>>)}
    [] member = "int" -> {IntV(0)}
    [] member = "float" -> {FloatV(5)}
    [] member = "bool" -> {BoolV(FALSE)}
    [] member = "literal" -> {StrV(<<"r", "m", "s", "-", "w", "i", "t", "h", "-", "m", "i", "n">>)}
    [] member = "seq_str" -> {ListV(<<StrV(<<"a", ".", "m", "s">>), StrV(<<"b", ".", "m", "s">>)>>)}
    [] member = "seq_int" -> {ListV(<<IntV(0), IntV(7)>>)}
    [] member = "list_int" ->
         {ListV(<<>>), ListV(<<IntV(512)>>), ListV(<<IntV(128), IntV(64)>>),
          ListV(<<IntV(1), IntV(2), IntV(3)>>), ListV(<<IntV(0), IntV(-5)>>),
          ListV(<<StrV(<<"x">>), IntV(64)>>), ListV(<<FloatV(15), IntV(64)>>),
          ListV(<<FloatV(1280), IntV(64)>>)}
    [] member = "list_str_float" ->
         {ListV(<<StrV(<<"b", "r", "i", "g", "g", "s">>), FloatV(5)>>), ListV(<<StrV(<<"b", "r", "i", "g", "g", "s">>), IntV(0)>>),
          ListV(<<StrV(<<"f", "o", "o">>), FloatV(5)>>), ListV(<<FloatV(5), StrV(<<"b", "r", "i", "g", "g", "s">>)>>),
          ListV(<<StrV(<<"b", "r", "i", "g", "g", "s">>), StrV(<<"x">>)>>), ListV(<<StrV(<<"b", "r", "i", "g", "g", "s">>)>>),
          ListV(<<StrV(<<"b", "r", "i", "g", "g", "s">>), FloatV(5), FloatV(10)>>)}

\* Further raw values for the fields the rules single out: absent, None and
\* wrongly typed values of the required fields, the weighting keywords, truthy
\* values, None for a field that has a default
ExtraSamples(name) ==
  CASE name = "ms" -> {Missing, None, ListV(<<>>), StrV(<<"a", ".", "m", "s">>)}
    [] name = "prefix" -> {Missing, None, IntV(5)}
    [] name = "size" -> {Missing, None, IntV(512)}
    [] name = "scale" -> {Missing, None, IntV(2)}
    [] name = "column" -> {None, StrV(<<"C", "O", "R", "R", "E", "C", "T", "E", "D", "_", "D", "A", "T", "A">>), Dict}
    [] name = "weight" ->
         {None, StrV(<<"n", "a", "t", "u", "r", "a", "l">>), StrV(<<"u", "n", "i", "f", "o", "r", "m">>), StrV(<<"b", "r", "i", "g", "g", "s">>), StrV(<<"f", "o", "o">>),
          IntV(1)}
    [] name = "niter" -> {Missing, None, StrV(<<"x">>)}
    [] name = "threads" -> {IntV(4), FloatV(40), FloatV(15)}
    [] name = "multiscale" -> {BoolV(TRUE), None}
    [] name = "local_rms_method" -> {StrV(<<"r", "m", "s">>), StrV(<<"R", "M", "S">>)}
    [] name = "continue_" -> {BoolV(TRUE), Dict}
    [] OTHER -> {}

\* The raw values drawn for field i
RawDomain(i) ==
  UNION {RawSamples(member) : member \in FieldTable[i].type}
    \cup ExtraSamples(FieldName[i])

\* The request the drawn requests are edits of
BaseRequest ==
  [ms |-> ListV(<<StrV(<<"a", ".", "m", "s">>)>>),
   prefix |-> StrV(<<"o", "u", "t">>),
   size |-> ListV(<<IntV(512), IntV(512)>>),
   scale |-> StrV(<<"1", "a", "s", "e", "c">>),
   niter |-> IntV(1000)]

\* kwargs with key k set to x, or dropped when x is Missing
With(kwargs, k, x) ==
  [j \in (DOMAIN kwargs \ {k}) \cup (IF x = Missing THEN {} ELSE {k}) |->
     IF j = k THEN x ELSE kwargs[j]]
Without(kwargs, k) == With(kwargs, k, Missing)

RECURSIVE Edited(_)
\* BaseRequest with at most n keys changed
Edited(n) ==
  IF n = 0 THEN {BaseRequest}
  ELSE LET prev == Edited(n - 1)
       IN  prev \cup UNION {{With(r, InputKey[i], x) : r \in prev, x \in RawDomain(i)} :
                              i \in 1..NumFields}

\* The number of keys in which a request differs from BaseRequest
Distance(r) == Cardinality({k \in InputKeys : Arg(r, k) # Arg(BaseRequest, k)})

\* What a child process may leave behind: exit code and captured streams
ChildOutcomes ==
  {[returncode |-> 0, stdout |-> "done", stderr |-> ""],
   [returncode |-> 0, stdout |-> "", stderr |-> "warning"],
   [returncode |-> 2, stdout |-> "", stderr |-> "error"]}

NoObject == [t |-> "none"]
NoChild == [t |-> "none"]
NoResult == [t |-> "none"]

(***************************************************************************)
(* The state machine of one imaging request.                               *)
(***************************************************************************)
Init ==
  /\ raw \in Edited(MaxWrites)
  /\ writes = Distance(raw)
  /\ pc = "request"
  /\ obj = NoObject
  /\ tokens = <<>>
  /\ spawned = 0
  /\ child = NoChild
  /\ error = "none"
  /\ result = NoResult

\* Variant of Validate: the instance is built without validation, as
\* model_construct does
Validate_Unchecked ==
  /\ pc = "request"
  /\ pc' = "constructed"
  /\ obj' = [n \in FieldNames |->
               LET x == Arg(raw, InputKey[FieldIndex[n]])
               IN  IF x = Missing
                   THEN IF FieldTable[FieldIndex[n]].default = Missing THEN None
                        ELSE FieldTable[FieldIndex[n]].default
                   ELSE x]
  /\ UNCHANGED <<raw, writes, tokens, spawned, child, error, result>>

\* WSCleanInput(**raw): the instance, or ValidationError
Validate ==
  /\ pc = "request"
  /\ IF Validates(raw)
     THEN /\ pc' = "constructed"
          /\ obj' = Construct(raw)
          /\ error' = error
     ELSE /\ pc' = "invalid"
          /\ obj' = obj
          /\ error' = "ValidationError"
  /\ UNCHANGED <<raw, writes, tokens, spawned, child, result>>

\* input_args.<n> = x by the holder of the instance: BaseModel.__setattr__
\* of a model that sets neither frozen nor validate_assignment
Assign(n, x) ==
  /\ pc = "constructed"
  /\ writes < MaxWrites
  /\ x \notin {Missing, obj[n]}
  /\ obj' = [obj EXCEPT ![n] = x]
  /\ writes' = writes + 1
  /\ UNCHANGED <<pc, raw, tokens, spawned, child, error, result>>

\* Variant of run_wsclean: serialisation consumes the column default in place
run_wsclean_in_place ==
  /\ pc = "constructed"
  /\ tokens' = to_cmd(obj)
  /\ obj' = [obj EXCEPT !["column"] = None]
  /\ \/ /\ pc' = "running"
        /\ spawned' = spawned + 1
        /\ error' = error
     \/ /\ pc' = "spawn_error"
        /\ spawned' = spawned
        /\ error' = "OSError"
  /\ UNCHANGED <<raw, writes, child, result>>

\* run_wsclean(obj) up to the Popen call of stimela_run: the child starts,
\* or Popen raises OSError (executable not found, permission denied)
run_wsclean ==
  /\ pc = "constructed"
  /\ tokens' = to_cmd(obj)
  /\ \/ /\ pc' = "running"
        /\ spawned' = spawned + 1
        /\ error' = error
     \/ /\ pc' = "spawn_error"
        /\ spawned' = spawned
        /\ error' = "OSError"
  /\ UNCHANGED <<raw, obj, writes, child, result>>

\* process.communicate() returns when the child has exited, leaving out;
\* stimela_run returns the RunResult
communicate(out) ==
  /\ pc = "running"
  /\ child' = out
  /\ result' = RunResultOf(tokens, out)
  /\ pc' = "returned"
  /\ UNCHANGED <<raw, obj, writes, tokens, spawned, error>>

Next ==
  \/ Validate
  \/ \E i \in 1..NumFields : \E x \in RawDomain(i) : Assign(FieldName[i], x)
  \/ run_wsclean
  \/ \E out \in ChildOutcomes : communicate(out)

Spec == Init /\ [][Next]_vars

(***************************************************************************)
(* Reading a token sequence back.                                          *)
(***************************************************************************)
\* The states run_wsclean's call of to_cmd leads to: the token sequence is
\* read there, before communicate() folds it into the RunResult's command
Serialised == {"running", "spawn_error"}
\* The states in which run_wsclean has called to_cmd
AfterRun == Serialised \cup {"returned"}
\* The states in which the instance exists
Constructed == {"constructed"} \cup AfterRun

\* The caller has assigned no attribute since construction
Unassigned == writes = Distance(raw)

RECURSIVE EqualsAt(_, _)
\* The position of the first "=" of a token from position k on, or 0
EqualsAt(tok, k) ==
  IF k > Len(tok) THEN 0 ELSE IF tok[k] = "=" THEN k ELSE EqualsAt(tok, k + 1)

TokenName(tok) == SubSeq(tok, 1, EqualsAt(tok, 1) - 1)
TokenValue(tok) == SubSeq(tok, EqualsAt(tok, 1) + 1, Len(tok))

\* Hyphens replaced back with underscores
Underscored(name) ==
  [k \in 1..Len(name) |-> IF name[k] = "-" THEN "_" ELSE name[k]]

\* The tokens of a sequence as TLA+ strings
Texts(toks) == [k \in 1..Len(toks) |-> Join(toks[k])]

\* The names of the tokens after the leading tool token
TokenNames(toks) == {TokenName(toks[k]) : k \in 2..Len(toks)}

\* The fields whose value in the instance is not None
SetFields == {i \in 1..NumFields : obj[FieldName[i]] # None}

\* The fields the caller supplied with a value other than None
SuppliedFields == {i \in 1..NumFields : Arg(raw, InputKey[i]) \notin {Missing, None}}

\* Every key of the request but k is as in BaseRequest
OnlyEdited(k) == \A j \in InputKeys \ {k} : Arg(raw, j) = Arg(BaseRequest, j)

(***************************************************************************)
(* C1.  The end-to-end scenario.                                           *)
(***************************************************************************)
C1Request == [BaseRequest EXCEPT !["size"] = IntV(512)]

\* C1: for the request {ms: ["a.ms"], prefix: "out", size: 512, scale:
\* "1asec", niter: 1000} construction succeeds, to_cmd returns exactly the six
\* tokens cultcargo::wsclean ms=['a.ms'] prefix=out size=512 scale=1asec
\* niter=1000, and the RunResult's command is "stimela run " followed by them.
C1_EndToEnd ==
  raw = C1Request =>
    /\ pc # "invalid"
    /\ pc \in AfterRun =>
         Texts(tokens) = <<"cultcargo::wsclean", "ms=['a.ms']", "prefix=out",
                           "size=512", "scale=1asec", "niter=1000">>
    /\ pc = "returned" =>
         Join(result.command) =
           "stimela run cultcargo::wsclean ms=['a.ms'] prefix=out size=512 scale=1asec niter=1000"

(***************************************************************************)
(* C2.  Size validation.                                                   *)
(***************************************************************************)
\* A single integer, or a two-element sequence of integers
SizeShape(x) ==
  \/ x.t = "int"
  \/ x.t = "list" /\ Len(x.v) = 2 /\ \A k \in 1..2 : x.v[k].t = "int"

\* C2: construction succeeds for a size that is a single integer or a
\* two-element sequence of integers, and fails for every other arity and for
\* any non-integer element.
C2_SizeValidation ==
  (pc # "request" /\ OnlyEdited("size")) =>
    ((pc # "invalid") <=> SizeShape(Arg(raw, "size")))

(***************************************************************************)
(* C3.  Unset attributes yield no token.                                   *)
(***************************************************************************)
\* C3 as stated: the attribute names in the tokens of to_cmd are exactly the
\* fields the caller explicitly set; every optional attribute is unset unless
\* the caller supplies it.
C3_OnlySuppliedFields ==
  (pc \in Serialised /\ Unassigned) =>
    TokenNames(tokens) = {cli_sanitise(KeyChars(i)) : i \in SuppliedFields}

\* The fields that hold a value without the caller supplying one: column,
\* whose default is "DATA"
DefaultedFields ==
  {i \in 1..NumFields :
     Arg(raw, InputKey[i]) = Missing /\ FieldTable[i].default \notin {Missing, None}}

\* C3, amended: the attribute names in the tokens of to_cmd are exactly the
\* fields the caller supplied with a value other than None, plus column when
\* the caller did not supply it (it defaults to "DATA"); every other optional
\* attribute is None unless supplied and yields no token.
C3_SuppliedOrDefaulted ==
  (pc \in Serialised /\ Unassigned) =>
    /\ TokenNames(tokens) =
         {cli_sanitise(KeyChars(i)) : i \in SuppliedFields \cup DefaultedFields}
    /\ DefaultedFields \subseteq {FieldIndex["column"]}

\* A request supplying only ms, prefix, size and scale has been serialised:
\* five tokens follow the tool token, the fifth being column=DATA
C3_Witness ==
  /\ pc \in Serialised
  /\ raw = Without(BaseRequest, "niter")
  /\ Texts(tokens) = <<"cultcargo::wsclean", "ms=['a.ms']", "prefix=out",
                       "size=[512, 512]", "scale=1asec", "column=DATA">>

(***************************************************************************)
(* C4.  Immutability.                                                      *)
(***************************************************************************)
\* C4 as stated: once constructed, no operation, attribute assignment by the
\* caller included, changes any attribute: the instance keeps the validated
\* values, satisfies the size and weight rules, and to_cmd reflects the
\* validated values.
C4_Immutable ==
  pc \in Constructed =>
    /\ obj = Construct(raw)
    /\ validate_size(obj["size"]).ok
    /\ validate_weight(obj["weight"]).ok
    /\ pc \in AfterRun => tokens = to_cmd(Construct(raw))

\* C4, amended: run_wsclean, to_cmd and stimela_run change no attribute, so
\* an instance the caller has not assigned to keeps the validated values and
\* satisfies the size and weight rules, and to_cmd reflects the values the
\* instance holds when it is called; the model is not frozen, and an
\* attribute assignment by the caller does change the value, unvalidated.
C4_CoreKeepsValues ==
  /\ pc \in AfterRun => tokens = to_cmd(obj)
  /\ (pc \in Constructed /\ Unassigned) =>
       /\ obj = Construct(raw)
       /\ validate_size(obj["size"]).ok
       /\ validate_weight(obj["weight"]).ok

\* The caller assigned a three-element size to a validated instance, and
\* run_wsclean serialised it
C4_Witness ==
  /\ pc \in AfterRun
  /\ ~Unassigned
  /\ obj["size"] = ListV(<<IntV(1), IntV(2), IntV(3)>>)
  /\ ~validate_size(obj["size"]).ok
  /\ \E k \in 2..Len(tokens) : Join(tokens[k]) = "size=[1, 2, 3]"

(***************************************************************************)
(* C5.  Validation precedes spawning.                                      *)
(***************************************************************************)
\* C5: a child process is spawned only after the request's parameters have
\* passed validation; a request that fails validation ends in a validation
\* error with no child spawned, no RunResult and no instance.
C5_ValidationPrecedesSpawn ==
  /\ (pc \in Constructed \/ spawned > 0 \/ result # NoResult) => Validates(raw)
  /\ (pc # "request" /\ ~Validates(raw)) =>
       /\ pc = "invalid"
       /\ error = "ValidationError"
       /\ spawned = 0
       /\ result = NoResult
       /\ obj = NoObject
  /\ spawned > 0 => pc \in {"running", "returned"}

\* A request with an edited field passed validation and its child runs
C5_Witness ==
  /\ pc = "running"
  /\ spawned = 1
  /\ raw # BaseRequest
  /\ Validates(raw)

(***************************************************************************)
(* C6.  A RunResult if and only if the child was spawned and has exited.   *)
(***************************************************************************)
\* C6: stimela_run returns a RunResult exactly when the child was spawned and
\* has terminated; the result carries the child's exit code, whatever it is,
\* and its captured stdout and stderr, and no error is raised; when the child
\* cannot be spawned an error is raised and no RunResult is produced.
C6_ResultIffChildExited ==
  /\ (result # NoResult) <=> (pc = "returned")
  /\ (child # NoChild) <=> (pc = "returned")
  /\ pc = "returned" =>
       /\ spawned = 1
       /\ error = "none"
       /\ result.return_code = child.returncode
       /\ result.stdout = child.stdout
       /\ result.stderr = child.stderr
  /\ pc = "spawn_error" =>
       /\ spawned = 0
       /\ error = "OSError"
  /\ error = "OSError" => pc = "spawn_error"

\* A child exited with code 2 having written to stderr, and the RunResult
\* reports it without an error
C6_Witness ==
  /\ pc = "returned"
  /\ child.returncode = 2
  /\ result.return_code = 2
  /\ result.stderr = "error"
  /\ error = "none"

(***************************************************************************)
(* C7.  Name mapping.                                                      *)
(***************************************************************************)
\* C7: the name of the token of every set attribute other than continue_ is
\* the field name with every underscore replaced by a hyphen, and replacing
\* the hyphens back recovers the field name; continue_ serialises with the
\* name continue exactly, never continue_ or continue-.
C7_NameMapping ==
  pc \in Serialised =>
    /\ \A nm \in TokenNames(tokens) : \A j \in 1..Len(nm) : nm[j] # "_"
    /\ {Underscored(nm) : nm \in TokenNames(tokens)} \ {<<"c", "o", "n", "t", "i", "n", "u", "e">>} =
         {FieldTable[i].name : i \in SetFields \ {FieldIndex["continue_"]}}
    /\ (FieldIndex["continue_"] \in SetFields) <=>
         (\E nm \in TokenNames(tokens) : Join(nm) = "continue")
    /\ \A nm \in TokenNames(tokens) : Join(nm) \notin {"continue_", "continue-"}

\* A field with three underscores has been serialised under its hyphenated
\* name
C7_Witness ==
  /\ pc \in Serialised
  /\ obj["no_update_model_required"] = BoolV(FALSE)
  /\ \E k \in 2..Len(tokens) :
       Join(tokens[k]) = "no-update-model-required=False"

(***************************************************************************)
(* C8.  Weight validation.                                                 *)
(***************************************************************************)
WeightKeywords == {<<"n", "a", "t", "u", "r", "a", "l">>, <<"u", "n", "i", "f", "o", "r", "m">>, <<"b", "r", "i", "g", "g", "s">>}

\* Unset, a weighting keyword, or a pair (weighting keyword, number)
WeightShape(x) ==
  \/ x \in {Missing, None}
  \/ x.t = "str" /\ x.v \in WeightKeywords
  \/ /\ x.t = "list"
     /\ Len(x.v) = 2
     /\ x.v[1].t = "str"
     /\ x.v[1].v \in WeightKeywords
     /\ x.v[2].t \in {"int", "float"}

\* C8: construction succeeds exactly when weight is unset, is one of natural,
\* uniform, briggs, or is a two-element structure of a weighting keyword and a
\* number in that order; every other shape fails.
C8_WeightValidation ==
  (pc # "request" /\ OnlyEdited("weight")) =>
    ((pc # "invalid") <=> WeightShape(Arg(raw, "weight")))

(***************************************************************************)
(* C9.  Required attributes.                                               *)
(***************************************************************************)
RequiredKeys == {"ms", "prefix", "size", "scale"}

\* ms a list of strings, prefix a string, size two integers, scale a string
\* or a number
RequiredPresent(o) ==
  /\ o["ms"].t = "list"
  /\ \A k \in 1..Len(o["ms"].v) : o["ms"].v[k].t = "str"
  /\ o["prefix"].t = "str"
  /\ o["size"].t = "list"
  /\ Len(o["size"].v) = 2
  /\ \A k \in 1..2 : o["size"].v[k].t = "int"
  /\ o["scale"].t \in {"str", "float"}

\* C9 as stated: every constructed instance has ms, prefix, size and scale
\* present, ms non-empty, prefix non-empty, every size dimension positive; a
\* request missing any of the four fails validation.
C9_RequiredNonEmpty ==
  /\ (pc # "request" /\ \E k \in RequiredKeys : Arg(raw, k) = Missing) => pc = "invalid"
  /\ (pc \in Constructed /\ Unassigned) =>
       /\ RequiredPresent(obj)
       /\ obj["ms"].v # <<>>
       /\ obj["prefix"].v # <<>>
       /\ \A k \in 1..2 : obj["size"].v[k].v > 0

\* C9, amended: every constructed instance has ms, prefix, size and scale
\* present (ms a list of strings, prefix a string, size a list of two
\* integers, scale a string or number); a request missing any of the four, or
\* giving None for it, fails validation.  Emptiness and sign are not checked:
\* ms=[], prefix="" and zero or negative size dimensions are accepted.
C9_RequiredPresent ==
  /\ (pc # "request" /\ \E k \in RequiredKeys : Arg(raw, k) \in {Missing, None}) =>
       pc = "invalid"
  /\ (pc \in Constructed /\ Unassigned) => RequiredPresent(obj)

\* A request with ms=[] was constructed
C9_Witness ==
  /\ pc = "constructed"
  /\ Unassigned
  /\ Arg(raw, "ms") = ListV(<<>>)
  /\ obj["ms"] = ListV(<<>>)

(***************************************************************************)
(* C10.  Shape of the token sequence.                                      *)
(***************************************************************************)
\* The declaration index of the field a token name belongs to
DeclIndex(nm) ==
  LET key == Underscored(nm) IN CHOOSE i \in 1..NumFields : KeyChars(i) = key

\* C10: to_cmd returns cultcargo::wsclean first, then exactly one name=value
\* token for each attribute that is not None (0, False and "" included), in
\* declaration order; a pair- or sequence-valued attribute contributes a
\* single token holding both parts.
C10_TokenShape ==
  pc \in Serialised =>
    /\ Len(tokens) = 1 + Cardinality(SetFields)
    /\ Join(tokens[1]) = "cultcargo::wsclean"
    /\ \A k \in 2..Len(tokens) :
         LET key == Underscored(TokenName(tokens[k]))
         IN  /\ EqualsAt(tokens[k], 1) > 1
             /\ \E i \in SetFields :
                  /\ KeyChars(i) = key
                  /\ TokenValue(tokens[k]) = PyStr(obj[FieldName[i]])
    /\ \A k \in 2..(Len(tokens) - 1) :
         DeclIndex(TokenName(tokens[k])) < DeclIndex(TokenName(tokens[k + 1]))
    /\ obj["size"] = ListV(<<IntV(128), IntV(64)>>) =>
         \E k \in 2..Len(tokens) : Join(tokens[k]) = "size=[128, 64]"
    /\ obj["weight"] = ListV(<<StrV(<<"b", "r", "i", "g", "g", "s">>), FloatV(5)>>) =>
         \E k \in 2..Len(tokens) : Join(tokens[k]) = "weight=['briggs', 0.5]"
    /\ obj["nchan"] = IntV(0) =>
         \E k \in 2..Len(tokens) : Join(tokens[k]) = "nchan=0"
    /\ obj["multiscale"] = BoolV(FALSE) =>
         \E k \in 2..Len(tokens) : Join(tokens[k]) = "multiscale=False"
    /\ obj["column"] = StrV(<<>>) =>
         \E k \in 2..Len(tokens) : Join(tokens[k]) = "column="

\* A validated weight pair has been serialised as one token
C10_Witness ==
  /\ pc \in Serialised
  /\ Unassigned
  /\ obj["weight"] = ListV(<<StrV(<<"b", "r", "i", "g", "g", "s">>), FloatV(5)>>)
  /\ Len(tokens) = 8
  /\ Join(tokens[7]) = "weight=['briggs', 0.5]"

=============================================================================
